---- MODULE Spec2Model ----
(***************************************************************************)
(* Model of the waitroom chatbot's conversation pipeline:                  *)
(*   Server.handlePostMessage  (src/internal/http/handlers.go)             *)
(*   ChatService.Reply / ReplyWithContext (src/internal/core/chat.go)      *)
(*   OpenAIClient.Chat         (src/unnamed/part_004)                      *)
(*   Repository.*              (src/unnamed/part_003)                      *)
(*   Summarizer.Summarize      (src/internal/core/summarize.go)            *)
(*   Notifier.Notify           (src/internal/db/notify.go)                 *)
(*                                                                         *)
(* Every request (turn) is one goroutine of net/http; its steps interleave *)
(* with other turns at the store and LLM calls.  Texts are sequences of    *)
(* tokens so that strings.TrimSpace and concatenation are computed.        *)
(***************************************************************************)
EXTENDS Integers, Sequences, FiniteSets, TLC

\* ------------------------------------------------------------------ bounds
MaxTurns == 3        \* requests handled in one behaviour
MessageCap == 1      \* Server.MessageCap (MESSAGE_CAP of the environment)
MaxFaults == 1       \* failures injected in one behaviour (store, LLM, cancellation)
MaxActive == 2       \* goroutines (handlers and summarisations) alive at once
MaxKeyPoints == 2    \* key points of a summary given to a recomputation
MaxRounds == 2       \* recomputations run in isolation, one after another
MaxHistory == 2      \* messages of history handed to ReplyWithContext
MaxClock == 4        \* ticks the database clock runs
WindowDuration == 2  \* INTERVAL '7 days' of GetTranscript, in ticks of that clock
MaxRows == 3         \* rows of the messages table when timestamps are followed
MaxCallers == 3      \* calls of UpsertUser
MaxTranscript == 4   \* messages of a transcript handed to Summarize

Turns == 1..MaxTurns
Sessions == {"s1", "s2"}          \* rows of the sessions table
Whitespace == {" ", "\n"}
Contents == {<<>>, <<" ", "\n">>, <<" ", "h">>}   \* form values
LLMReplies == {<<"answer">>}      \* texts the chat completion may return

\* ------------------------------------------------------------- constants
RolePatient == "patient"
RoleBot == "bot"
CapMessage == <<"CapMessage">>
SystemPrompt == <<"SystemPrompt">>
SummarizationInstruction == <<"SummarizationInstruction">>
FallbackReply == <<"FallbackReply">>
FallbackKeyPoint == <<"FallbackKeyPoint">>
FallbackFreeText == <<"FallbackFreeText">>
SummaryTexts == {<<"summary">>}   \* texts the summarisation may return
NoSummary == [none |-> TRUE]
LogLoad == "failed to load transcript:"
LogSummarise == "failed to summarise:"
LogUpsert == "failed to upsert summary:"
NoConnection == [none |-> TRUE]

StatusNone == "none"                      \* nothing written yet
StatusOK == "200 OK"                      \* io.WriteString without WriteHeader
StatusBadRequest == "400 Bad Request"
StatusInternalServerError == "500 Internal Server Error"
StatusAborted == "aborted"                \* the handler panicked; net/http drops the connection

VARIABLES
    messages,     \* the messages table, in insertion (id) order
    summaries,    \* the summaries table: a set of rows
    notified,     \* NOTIFY payloads sent on the channel, in order
    nextTurn,     \* next request to arrive
    pc,           \* turn -> position in handlePostMessage
    sid,          \* turn -> sessionID of the request
    content,      \* turn -> r.FormValue("content")
    count,        \* turn -> result of CountPatientMessages
    capped,       \* turn -> "yes" once the cap denied it, "no" once admitted, "" before
    reply,        \* turn -> result of Chat.Reply
    llmErr,       \* turn -> Chat.Reply returned an error (dropped by the handler)
    sent,         \* turn -> message lists handed to LLM.Chat by this turn
    ctxDone,      \* turn -> the request context is cancelled
    cancelledAt,  \* turn -> pc at which the context was cancelled ("" if never)
    status,       \* turn -> HTTP status written
    body,         \* turn -> response body written
    ids,          \* turn -> ids of the messages this turn inserted, in order
    tpc,          \* turn -> position of the summarisation goroutine
    transcript,   \* turn -> transcript loaded by the goroutine
    existing,     \* turn -> summary loaded by the goroutine
    summary,      \* turn -> summary produced by Summarize
    sumErr,       \* turn -> Summarize returned an error
    logged,       \* turn -> lines the goroutine wrote with log.Println, in order
    faults,       \* failures injected so far
    mRows,        \* recomputation in isolation: the summaries table
    mPrev,        \* recomputation in isolation: the table before the latest recomputation
    mExt,         \* recomputation in isolation: what LLM.Summarize returns
    mRound,       \* recomputation in isolation: recomputations done
    sse,          \* the latest connection to the summary stream and what it was sent
    chatArgs,     \* ReplyWithContext in isolation: its lastUserMsg and history
    chatMsgs,     \* ReplyWithContext in isolation: the list handed to LLM.Chat
    clock,        \* timed store: the database clock
    table,        \* timed store: the messages table with created_at, in id order
    stmt,         \* timed store: connection -> its INSERT in progress
    result,       \* timed store: what the read of the latest step returned
    inFlight,     \* how many requests the server is given at once
    sessions,     \* UpsertUser: the sessions table, in insertion order
    upc,          \* UpsertUser: call -> position in UpsertUser
    uid,          \* UpsertUser: call -> u.NationalID
    affected,     \* UpsertUser: call -> rowsAffected of its UPDATE
    sumTranscript,  \* Summarize in isolation: the transcript it is given
    sumPrompt       \* Summarize in isolation: the prompt handed to LLM.Summarize

store == <<messages, summaries, notified>>
env == <<faults>>
handler == <<nextTurn, pc, sid, content, count, capped, reply, llmErr, sent, ctxDone,
             cancelledAt, status, body, ids>>
task == <<tpc, transcript, existing, summary, sumErr, logged>>
merge == <<mRows, mPrev, mExt, mRound>>
observer == <<sse>>
chat == <<chatArgs, chatMsgs>>
timed == <<clock, table, stmt, result>>
load == <<inFlight>>
signup == <<sessions, upc, uid, affected>>
extract == <<sumTranscript, sumPrompt>>
aside == <<merge, observer, chat, timed, load, signup, extract>>  \* what no step of the message handler touches
vars == <<messages, summaries, notified, nextTurn, pc, sid, content, count, capped, reply,
          llmErr, sent, ctxDone, cancelledAt, status, body, ids, tpc, transcript,
          existing, summary, sumErr, logged, faults, mRows, mPrev, mExt, mRound, sse,
          chatArgs, chatMsgs, clock, table, stmt, result, inFlight, sessions, upc, uid,
          affected, sumTranscript, sumPrompt>>

\* --------------------------------------------------------------- helpers
\* strings.TrimSpace: strip leading and trailing white space.
RECURSIVE TrimLeft(_)
TrimLeft(s) ==
    IF s # <<>> /\ Head(s) \in Whitespace THEN TrimLeft(Tail(s)) ELSE s

RECURSIVE TrimRight(_)
TrimRight(s) ==
    IF s # <<>> /\ s[Len(s)] \in Whitespace
    THEN TrimRight(SubSeq(s, 1, Len(s) - 1)) ELSE s

TrimSpace(s) == TrimRight(TrimLeft(s))

\* `<div class="message bot">` + text + `</div>`
BotSnippet(text) == <<"<div class=message bot>">> \o text \o <<"</div>">>

\* http.Error(w, text, code) writes the text as the body.
ErrorBody(text) == <<text>>

\* Variant: the count forgets the session filter.
CountAllSessions(msgs, sessionID) ==
    Len(SelectSeq(msgs, LAMBDA m : m.role = RolePatient))

\* Variant: the count is taken over a window, the latest two rows of the table.
CountRecentMessages(msgs, sessionID) ==
    Len(SelectSeq(SubSeq(msgs, IF Len(msgs) > 2 THEN Len(msgs) - 1 ELSE 1, Len(msgs)),
                  LAMBDA m : m.session_id = sessionID /\ m.role = RolePatient))

\* SELECT COUNT(*) FROM messages WHERE session_id = $1 AND role = 'patient'
CountPatientMessages(msgs, sessionID) ==
    Len(SelectSeq(msgs, LAMBDA m : m.session_id = sessionID /\ m.role = RolePatient))

\* INSERT INTO messages (session_id, role, content) ... RETURNING id, ...
NewMessage(msgs, sessionID, role, text) ==
    [id |-> Len(msgs) + 1, session_id |-> sessionID, role |-> role, content |-> text]

\* Variant: the row written over the latest one.
CreateMessageOverLatest(msgs, m) ==
    IF msgs = <<>> THEN <<m>> ELSE [msgs EXCEPT ![Len(msgs)] = m]

CreateMessage(msgs, m) == Append(msgs, m)

\* Variant: the content is compared without trimming.
IsEmptyUntrimmed(c) == c = <<>>

\* handlers.go:163: strings.TrimSpace(content) == ""
IsEmptyMessage(c) == TrimSpace(c) = <<>>

\* Variant: the comparison is strict.
DeniesAbove(n) == n > MessageCap

\* handlers.go:173: count >= s.MessageCap
Denies(n) == n >= MessageCap

\* Variant: the cap message is stored with the patient role.
CapRecordAsPatient(msgs, sessionID) == NewMessage(msgs, sessionID, RolePatient, CapMessage)

\* handlers.go:175: the cap message, as the bot.
CapRecord(msgs, sessionID) == NewMessage(msgs, sessionID, RoleBot, CapMessage)

\* handlers.go:181: the patient's message as received.
PatientRecord(msgs, sessionID, c) == NewMessage(msgs, sessionID, RolePatient, c)

\* Variant: the stored text is not the reply.
BotRecordCapText(msgs, sessionID, text) == NewMessage(msgs, sessionID, RoleBot, CapMessage)

\* handlers.go:189: the reply, as the bot.
BotRecord(msgs, sessionID, text) == NewMessage(msgs, sessionID, RoleBot, text)

\* Variant: the patient's messages only.
GetTranscriptPatientOnly(msgs, sessionID) ==
    SelectSeq(msgs, LAMBDA m : m.session_id = sessionID /\ m.role = RolePatient)

\* SELECT ... FROM messages WHERE session_id = $1 ORDER BY created_at ASC
GetTranscript(msgs, sessionID) ==
    SelectSeq(msgs, LAMBDA m : m.session_id = sessionID)

\* SELECT ... FROM summaries WHERE session_id = $1: nil when there is no row.
GetSummary(rows, sessionID) ==
    IF \E row \in rows : row.session_id = sessionID
    THEN CHOOSE row \in rows : row.session_id = sessionID
    ELSE NoSummary

\* Variant: a plain INSERT, without the ON CONFLICT clause.
InsertRow(rows, s) == rows \cup {s}

\* INSERT INTO summaries ... ON CONFLICT (session_id) DO UPDATE SET key_points,
\* structured, free_text, updated_at = EXCLUDED.*: one statement, atomic.
UpsertRow(rows, s) ==
    {row \in rows : row.session_id # s.session_id} \cup {s}

\* A store call made with context c fails when c is cancelled (database/sql
\* returns ctx.Err()) or when the store is unreachable (ok = FALSE).
StoreOK(t, ok) == ok /\ ~ctxDone[t]

\* Variant: the goroutine works under the context of the request, which
\* net/http cancels when the client goes away or the handler returns.
RequestCtxDone(t) == ctxDone[t] \/ pc[t] = "done"

\* The goroutine's store and LLM calls are made with context.Background(),
\* which is never cancelled.
TaskCtxDone(t) == FALSE

\* A call of the goroutine of turn t works when the environment lets it and
\* its context is alive.
TaskOK(t, ok) == ok /\ ~TaskCtxDone(t)

\* The environment may still make a call fail.
Oks == IF faults < MaxFaults THEN BOOLEAN ELSE {TRUE}

Charge(ok) == IF ok THEN faults ELSE faults + 1

\* ChatService.ReplyWithContext: system prompt, history with roles mapped,
\* the current patient message last.
\* Variant: the new message placed before the history.
BuildMessagesNewFirst(lastUserMsg, history) ==
    <<[role |-> "system", content |-> SystemPrompt]>>
    \o <<[role |-> "user", content |-> lastUserMsg]>>
    \o [i \in 1..Len(history) |->
           [role |-> IF history[i].role = RoleBot THEN "assistant" ELSE "user",
            content |-> history[i].content]]

MapRole(role) == IF role = RoleBot THEN "assistant" ELSE "user"

BuildMessages(lastUserMsg, history) ==
    <<[role |-> "system", content |-> SystemPrompt]>>
    \o [i \in 1..Len(history) |->
           [role |-> MapRole(history[i].role), content |-> history[i].content]]
    \o <<[role |-> "user", content |-> lastUserMsg]>>

\* Variant: the stored messages are handed over as the history.
ReplyMessagesWithStored(message) == BuildMessages(message, messages)

\* ChatService.Reply delegates to ReplyWithContext with no history.
ReplyMessages(message) == BuildMessages(message, <<>>)

\* OpenAIClient.Chat: (text, nil) when it works; when the environment makes it
\* misbehave, ("", nil) for a completion without choices or ("", err).
ChatOutcomes(ok) ==
    IF ok THEN {[text |-> x, err |-> FALSE] : x \in LLMReplies}
    ELSE {[text |-> <<>>, err |-> FALSE], [text |-> <<>>, err |-> TRUE]}

\* The sessions a request may name: session ids are interchangeable, so the
\* first request is for "s1".
SessionsOf(n) == IF n = 1 THEN {"s1"} ELSE Sessions

\* Summarizer.Summarize, lines 34-41: the last patient message of the transcript.
RECURSIVE LastPatientMessage(_)
LastPatientMessage(tr) ==
    IF tr = <<>> THEN <<>>
    ELSE IF tr[Len(tr)].role = RolePatient THEN tr[Len(tr)].content
    ELSE LastPatientMessage(SubSeq(tr, 1, Len(tr) - 1))

SummarizePrompt(tr) == SummarizationInstruction \o <<"\n\n">> \o LastPatientMessage(tr)

\* Summarizer.Summarize, lines 43-52: the fallback summary.
SummarizeFallback(sessionID) ==
    [session_id |-> sessionID, key_points |-> <<FallbackKeyPoint>>,
     structured |-> <<>>, free_text |-> FallbackFreeText]

\* Summarizer.Summarize, lines 56-66: the response is the only key point and the free text.
SummarizeResult(sessionID, resp) ==
    [session_id |-> sessionID, key_points |-> <<resp>>,
     structured |-> <<>>, free_text |-> resp]

\* ------------------------------------------------------------------ Init
InitServer ==
    /\ messages = <<>>
    /\ summaries = {}
    /\ notified = <<>>
    /\ nextTurn = 1
    /\ pc = [t \in Turns |-> "idle"]
    /\ sid = [t \in Turns |-> "s1"]
    /\ content = [t \in Turns |-> <<>>]
    /\ count = [t \in Turns |-> 0]
    /\ capped = [t \in Turns |-> ""]
    /\ reply = [t \in Turns |-> <<>>]
    /\ llmErr = [t \in Turns |-> FALSE]
    /\ sent = [t \in Turns |-> <<>>]
    /\ ctxDone = [t \in Turns |-> FALSE]
    /\ cancelledAt = [t \in Turns |-> ""]
    /\ status = [t \in Turns |-> StatusNone]
    /\ body = [t \in Turns |-> <<>>]
    /\ ids = [t \in Turns |-> <<>>]
    /\ tpc = [t \in Turns |-> "none"]
    /\ transcript = [t \in Turns |-> <<>>]
    /\ existing = [t \in Turns |-> NoSummary]
    /\ summary = [t \in Turns |-> NoSummary]
    /\ sumErr = [t \in Turns |-> FALSE]
    /\ logged = [t \in Turns |-> <<>>]
    /\ faults = 0
    /\ sse = NoConnection

\* The server: no recomputation is run in isolation.
\* The parts studied in isolation, at rest while the server runs.
NoCall == [none |-> TRUE]
NoStatement == [none |-> TRUE]
NoRead == [none |-> TRUE]
Connections == {"c1", "c2"}      \* connections of the sql.DB pool

ChatAtRest == chatArgs = NoCall /\ chatMsgs = <<>>

TimedAtRest ==
    /\ clock = 0
    /\ table = <<>>
    /\ stmt = [c \in Connections |-> NoStatement]
    /\ result = NoRead

Callers == 1..MaxCallers

SignupAtRest ==
    /\ sessions = <<>>
    /\ upc = [c \in Callers |-> "idle"]
    /\ uid = [c \in Callers |-> "n1"]
    /\ affected = [c \in Callers |-> 0]

ExtractAtRest == sumTranscript = <<>> /\ sumPrompt = <<>>

MergeAtRest ==
    /\ mRows = {}
    /\ mPrev = {}
    /\ mExt = [text |-> <<>>, err |-> FALSE]
    /\ mRound = MaxRounds

Init ==
    /\ InitServer
    /\ MergeAtRest
    /\ ChatAtRest
    /\ TimedAtRest
    /\ inFlight = MaxTurns
    /\ SignupAtRest
    /\ ExtractAtRest

\* --------------------------------------------------------------- handler
\* Turns whose handler or summarisation goroutine is running.
Active == {t \in Turns : pc[t] \notin {"idle", "done"} \/ tpc[t] \notin {"none", "done"}}

\* The handler returns after writing `code` and `text`.
Respond(t, code, text) ==
    /\ pc' = [pc EXCEPT ![t] = "done"]
    /\ status' = [status EXCEPT ![t] = code]
    /\ body' = [body EXCEPT ![t] = text]

\* handlePostMessage, lines 156-166: parse the form, reject an empty message.
\* A request arrives while fewer than k goroutines are alive.
ParseRequest(t, k) ==
    /\ pc[t] = "idle"
    /\ UNCHANGED aside
    /\ t = nextTurn
    /\ Cardinality(Active) < k
    /\ nextTurn' = nextTurn + 1
    /\ \E s \in SessionsOf(nextTurn), c \in Contents, formOK \in BOOLEAN :
         /\ sid' = [sid EXCEPT ![t] = s]
         /\ content' = [content EXCEPT ![t] = IF formOK THEN c ELSE <<>>]
         /\ IF ~formOK
            THEN Respond(t, StatusBadRequest, ErrorBody("invalid form"))
            ELSE IF IsEmptyMessage(c)
            THEN Respond(t, StatusBadRequest, ErrorBody("empty message"))
            ELSE /\ pc' = [pc EXCEPT ![t] = "count"]
                 /\ UNCHANGED <<status, body>>
    /\ UNCHANGED <<store, task, env, count, capped, reply, llmErr, sent, ctxDone,
                   cancelledAt, ids>>

\* handlePostMessage, lines 167-173: read the count and decide.
CountMessages(t) ==
    /\ pc[t] = "count"
    /\ UNCHANGED aside
    /\ \E ok \in Oks :
         /\ faults' = Charge(ok)
         /\ IF StoreOK(t, ok)
            THEN LET n == CountPatientMessages(messages, sid[t]) IN
                 /\ count' = [count EXCEPT ![t] = n]
                 /\ capped' = [capped EXCEPT ![t] = IF Denies(n) THEN "yes" ELSE "no"]
                 /\ pc' = [pc EXCEPT ![t] = IF Denies(n) THEN "cap" ELSE "patient"]
                 /\ UNCHANGED <<status, body>>
            ELSE /\ Respond(t, StatusInternalServerError, ErrorBody("store error"))
                 /\ UNCHANGED <<count, capped>>
    /\ UNCHANGED <<store, task, nextTurn, sid, content, reply, llmErr, sent, ctxDone,
                   cancelledAt, ids>>

\* Variant: the denied turn starts the summarisation goroutine as well.
CapReplyThenSummarise(t) ==
    /\ pc[t] = "cap"
    /\ UNCHANGED aside
    /\ \E ok \in Oks :
         /\ faults' = Charge(ok)
         /\ IF StoreOK(t, ok)
            THEN LET botMessage == CapRecord(messages, sid[t]) IN
                 /\ messages' = CreateMessage(messages, botMessage)
                 /\ ids' = [ids EXCEPT ![t] = Append(@, botMessage.id)]
                 /\ tpc' = [tpc EXCEPT ![t] = "load"]
                 /\ Respond(t, StatusOK, BotSnippet(botMessage.content))
            ELSE /\ Respond(t, StatusAborted, <<>>)
                 /\ UNCHANGED <<messages, ids, tpc>>
    /\ UNCHANGED <<summaries, notified, transcript, existing, summary, sumErr, logged,
                   nextTurn, sid, content, count, capped, reply, llmErr, sent, ctxDone,
                   cancelledAt>>

\* handlePostMessage, lines 173-179: the cap message is inserted and written;
\* the insert's error is dropped, so a failed insert dereferences a nil message.
CapReply(t) ==
    /\ pc[t] = "cap"
    /\ UNCHANGED aside
    /\ \E ok \in Oks :
         /\ faults' = Charge(ok)
         /\ IF StoreOK(t, ok)
            THEN LET botMessage == CapRecord(messages, sid[t]) IN
                 /\ messages' = CreateMessage(messages, botMessage)
                 /\ ids' = [ids EXCEPT ![t] = Append(@, botMessage.id)]
                 /\ Respond(t, StatusOK, BotSnippet(botMessage.content))
            ELSE /\ Respond(t, StatusAborted, <<>>)
                 /\ UNCHANGED <<messages, ids>>
    /\ UNCHANGED <<summaries, notified, task, nextTurn, sid, content, count, capped, reply,
                   llmErr, sent, ctxDone, cancelledAt>>

\* handlePostMessage, lines 180-185: persist the patient message.
PersistPatient(t) ==
    /\ pc[t] = "patient"
    /\ UNCHANGED aside
    /\ \E ok \in Oks :
         /\ faults' = Charge(ok)
         /\ IF StoreOK(t, ok)
            THEN LET m == PatientRecord(messages, sid[t], content[t]) IN
                 /\ messages' = CreateMessage(messages, m)
                 /\ ids' = [ids EXCEPT ![t] = Append(@, m.id)]
                 /\ pc' = [pc EXCEPT ![t] = "chat"]
                 /\ UNCHANGED <<status, body>>
            ELSE /\ Respond(t, StatusInternalServerError, ErrorBody("store error"))
                 /\ UNCHANGED <<messages, ids>>
    /\ UNCHANGED <<summaries, notified, task, nextTurn, sid, content, count, capped, reply,
                   llmErr, sent, ctxDone, cancelledAt>>

\* handlePostMessage, lines 186-187: reply, _ := s.Chat.Reply(ctx, sessionID, content).
\* The call fails when the request context is cancelled.
ChatReply(t) ==
    /\ pc[t] = "chat"
    /\ UNCHANGED aside
    /\ \E ok \in Oks :
         /\ faults' = Charge(ok)
         /\ \E r \in (IF ctxDone[t] THEN {[text |-> <<>>, err |-> TRUE]}
                     ELSE ChatOutcomes(ok)) :
              /\ reply' = [reply EXCEPT ![t] = r.text]
              /\ llmErr' = [llmErr EXCEPT ![t] = r.err]
    /\ sent' = [sent EXCEPT ![t] = Append(@, ReplyMessages(content[t]))]
    /\ pc' = [pc EXCEPT ![t] = "bot"]
    /\ UNCHANGED <<store, task, nextTurn, sid, content, count, capped, ctxDone, cancelledAt,
                   status, body, ids>>

\* Variant: the goroutine is started whether or not the bot insert worked.
PersistBotAlwaysSummarises(t) ==
    /\ pc[t] = "bot"
    /\ UNCHANGED aside
    /\ \E ok \in Oks :
         /\ faults' = Charge(ok)
         /\ IF StoreOK(t, ok)
            THEN LET m == BotRecord(messages, sid[t], reply[t]) IN
                 /\ messages' = CreateMessage(messages, m)
                 /\ ids' = [ids EXCEPT ![t] = Append(@, m.id)]
                 /\ tpc' = [tpc EXCEPT ![t] = "load"]
                 /\ Respond(t, StatusOK, BotSnippet(reply[t]))
            ELSE /\ Respond(t, StatusInternalServerError, ErrorBody("store error"))
                 /\ tpc' = [tpc EXCEPT ![t] = "load"]
                 /\ UNCHANGED <<messages, ids>>
    /\ UNCHANGED <<summaries, notified, transcript, existing, summary, sumErr, logged,
                   nextTurn, sid, content, count, capped, reply, llmErr, sent, ctxDone, cancelledAt>>

\* Variant: a failed bot insert takes the patient message of the turn back.
PersistBotRollsBack(t) ==
    /\ pc[t] = "bot"
    /\ UNCHANGED aside
    /\ \E ok \in Oks :
         /\ faults' = Charge(ok)
         /\ IF StoreOK(t, ok)
            THEN LET m == BotRecord(messages, sid[t], reply[t]) IN
                 /\ messages' = CreateMessage(messages, m)
                 /\ ids' = [ids EXCEPT ![t] = Append(@, m.id)]
                 /\ tpc' = [tpc EXCEPT ![t] = "load"]
                 /\ Respond(t, StatusOK, BotSnippet(reply[t]))
            ELSE /\ Respond(t, StatusInternalServerError, ErrorBody("store error"))
                 /\ messages' = SelectSeq(messages, LAMBDA m : m.id # ids[t][1])
                 /\ UNCHANGED <<ids, tpc>>
    /\ UNCHANGED <<summaries, notified, transcript, existing, summary, sumErr, logged,
                   nextTurn, sid, content, count, capped, reply, llmErr, sent, ctxDone, cancelledAt>>

\* handlePostMessage, lines 188-216: persist the reply, start the
\* summarisation goroutine, write the reply.
PersistBot(t) ==
    /\ pc[t] = "bot"
    /\ UNCHANGED aside
    /\ \E ok \in Oks :
         /\ faults' = Charge(ok)
         /\ IF StoreOK(t, ok)
            THEN LET m == BotRecord(messages, sid[t], reply[t]) IN
                 /\ messages' = CreateMessage(messages, m)
                 /\ ids' = [ids EXCEPT ![t] = Append(@, m.id)]
                 /\ tpc' = [tpc EXCEPT ![t] = "load"]
                 /\ Respond(t, StatusOK, BotSnippet(reply[t]))
            ELSE /\ Respond(t, StatusInternalServerError, ErrorBody("store error"))
                 /\ UNCHANGED <<messages, ids, tpc>>
    /\ UNCHANGED <<summaries, notified, transcript, existing, summary, sumErr, logged,
                   nextTurn, sid, content, count, capped, reply, llmErr, sent, ctxDone, cancelledAt>>

\* The client goes away (or its deadline passes) while the request is handled:
\* r.Context() is cancelled.
Cancel(t) ==
    /\ pc[t] \in {"count", "cap", "patient", "chat", "bot"}
    /\ UNCHANGED aside
    /\ ~ctxDone[t]
    /\ faults < MaxFaults
    /\ faults' = faults + 1
    /\ ctxDone' = [ctxDone EXCEPT ![t] = TRUE]
    /\ cancelledAt' = [cancelledAt EXCEPT ![t] = pc[t]]
    /\ UNCHANGED <<store, task, nextTurn, pc, sid, content, count, capped, reply, llmErr, sent,
                   status, body, ids>>

\* ------------------------------------------------- summarisation goroutine
\* LLM.Summarize when it works: (text, nil).
SummarizeOutcomes == {[text |-> x, err |-> FALSE] : x \in SummaryTexts}

\* handlePostMessage, lines 196-200: load the transcript; a failure is logged
\* and ends the goroutine.
LoadTranscript(t) ==
    /\ tpc[t] = "load"
    /\ UNCHANGED aside
    /\ \E ok \in Oks :
         /\ faults' = Charge(ok)
         /\ IF TaskOK(t, ok)
            THEN /\ transcript' = [transcript EXCEPT ![t] = GetTranscript(messages, sid[t])]
                 /\ tpc' = [tpc EXCEPT ![t] = "summarize"]
                 /\ UNCHANGED logged
            ELSE /\ tpc' = [tpc EXCEPT ![t] = "done"]
                 /\ logged' = [logged EXCEPT ![t] = Append(@, LogLoad)]
                 /\ UNCHANGED transcript
    /\ UNCHANGED <<store, handler, existing, summary, sumErr>>

\* Variant: the fresh key point is appended to the old ones.
SummarizeAppending(sessionID, tr, old, r) ==
    LET kept == IF old = NoSummary THEN <<>> ELSE old.key_points IN
    IF r.err THEN SummarizeFallback(sessionID)
    ELSE [SummarizeResult(sessionID, r.text) EXCEPT !.key_points = kept \o <<r.text>>]

\* Variant: the fresh free text is added to the old one.
SummarizeKeepingFreeText(sessionID, tr, old, r) ==
    LET kept == IF old = NoSummary THEN <<>> ELSE old.free_text IN
    IF r.err THEN SummarizeFallback(sessionID)
    ELSE [SummarizeResult(sessionID, r.text) EXCEPT !.free_text = kept \o r.text]

\* Variant: no summary is returned with an error.
SummarizeNilOnError(sessionID, tr, old, r) ==
    IF r.err THEN NoSummary ELSE SummarizeResult(sessionID, r.text)

\* Summarizer.Summarize: the prompt is built from the transcript, the old
\* summary is not read, and the LLM's answer or the fallback is returned.
SummarizeCall(sessionID, tr, old, r) ==
    IF r.err THEN SummarizeFallback(sessionID) ELSE SummarizeResult(sessionID, r.text)

\* handlePostMessage, lines 201-205: existing, _ := s.Repo.GetSummary(...), then
\* s.Summarizer.Summarize(..., transcript, existing); the read's error is
\* dropped and the summariser's is logged.  The environment may fail the read
\* ("read"), fail the LLM call ("llm") or return no choices ("empty").
SummarizeFaults == IF faults < MaxFaults THEN {"none", "read", "llm", "empty"} ELSE {"none"}

\* Line 206: the upsert and the notification are skipped for a nil summary.
Summarize(t) ==
    /\ tpc[t] = "summarize"
    /\ UNCHANGED aside
    /\ \E f \in SummarizeFaults :
         /\ faults' = Charge(f = "none")
         /\ LET old == IF f = "read" \/ TaskCtxDone(t)
                       THEN NoSummary ELSE GetSummary(summaries, sid[t])
                outcomes == IF f = "llm" \/ TaskCtxDone(t)
                            THEN {[text |-> <<>>, err |-> TRUE]}
                            ELSE IF f = "empty" THEN {[text |-> <<>>, err |-> FALSE]}
                            ELSE SummarizeOutcomes
            IN \E r \in outcomes :
                 LET new == SummarizeCall(sid[t], transcript[t], old, r) IN
                 /\ existing' = [existing EXCEPT ![t] = old]
                 /\ summary' = [summary EXCEPT ![t] = new]
                 /\ sumErr' = [sumErr EXCEPT ![t] = r.err]
                 /\ logged' = [logged EXCEPT ![t] = IF r.err THEN Append(@, LogSummarise) ELSE @]
                 /\ tpc' = [tpc EXCEPT ![t] = IF new # NoSummary THEN "upsert" ELSE "done"]
    /\ UNCHANGED <<store, handler, transcript>>

\* Variant: a failed upsert is reported on the response of the turn.
UpsertSummaryFailsTurn(t) ==
    /\ tpc[t] = "upsert"
    /\ UNCHANGED aside
    /\ \E ok \in Oks :
         /\ faults' = Charge(ok)
         /\ summaries' = IF TaskOK(t, ok) THEN UpsertRow(summaries, summary[t])
                         ELSE summaries
         /\ logged' = [logged EXCEPT ![t] = IF TaskOK(t, ok) THEN @
                                            ELSE Append(@, LogUpsert)]
         /\ status' = [status EXCEPT ![t] = IF ok THEN @ ELSE StatusInternalServerError]
    /\ tpc' = [tpc EXCEPT ![t] = "notify"]
    /\ UNCHANGED <<messages, notified, nextTurn, pc, sid, content, count, capped, reply,
                   llmErr, sent, ctxDone, cancelledAt, body, ids, transcript, existing,
                   summary, sumErr>>

\* handlePostMessage, lines 207-209: upsert the summary; a failure is logged.
UpsertSummary(t) ==
    /\ tpc[t] = "upsert"
    /\ UNCHANGED aside
    /\ \E ok \in Oks :
         /\ faults' = Charge(ok)
         /\ summaries' = IF TaskOK(t, ok) THEN UpsertRow(summaries, summary[t])
                         ELSE summaries
         /\ logged' = [logged EXCEPT ![t] = IF TaskOK(t, ok) THEN @
                                            ELSE Append(@, LogUpsert)]
    /\ tpc' = [tpc EXCEPT ![t] = "notify"]
    /\ UNCHANGED <<messages, notified, handler, transcript, existing, summary, sumErr>>

\* handlePostMessage, lines 210-211 and Notifier.Notify: the error is dropped.
Notify(t) ==
    /\ tpc[t] = "notify"
    /\ UNCHANGED aside
    /\ \E ok \in Oks :
         /\ faults' = Charge(ok)
         /\ notified' = IF TaskOK(t, ok) THEN Append(notified, sid[t]) ELSE notified
    /\ tpc' = [tpc EXCEPT ![t] = "done"]
    /\ UNCHANGED <<messages, summaries, handler, transcript, existing, summary, sumErr,
                   logged>>

\* ------------------------------------------------------------------ Next
\* At most k goroutines are alive at once.
NextK(k) ==
    \E t \in Turns :
        \/ ParseRequest(t, k)
        \/ CountMessages(t)
        \/ CapReply(t)
        \/ PersistPatient(t)
        \/ ChatReply(t)
        \/ PersistBot(t)
        \/ Cancel(t)
        \/ LoadTranscript(t)
        \/ Summarize(t)
        \/ UpsertSummary(t)
        \/ Notify(t)

Next == NextK(MaxActive)

Spec == Init /\ [][Next]_vars

\* Turns handled one after another: a request arrives when the previous turn
\* and its summarisation are over.
NextSeq == NextK(1)

SpecSeq == Init /\ [][NextSeq]_vars

\* At most two turns under way at once.
NextTwo == NextK(2)

SpecTwo == Init /\ [][NextTwo]_vars

\* The Go scheduler runs every started goroutine: a summarisation goroutine
\* that can take its next step eventually takes it.
SpecFair ==
    /\ Spec
    /\ \A t \in Turns :
         /\ WF_vars(LoadTranscript(t))
         /\ WF_vars(Summarize(t))
         /\ WF_vars(UpsertSummary(t))
         /\ WF_vars(Notify(t))

\* ------------------------------------------------------ the summary stream
\* sendSummaryEvent, lines 336-342: the payload of a summary_update event
\* (updated_at is not modelled; the structured data is not part of the payload).
SummaryEvent(row) ==
    [type |-> "summary_update", session_id |-> row.session_id,
     key_points |-> row.key_points, free_text |-> row.free_text]

\* Variant: nothing is sent on connection; events follow notifications only.
SendOnNotifyOnly(rows, sessionID, ok) == <<>>

\* sendSummaryEvent: the events written for a connection.  A failed read is
\* logged by the caller and nothing is written; without a summary nothing is
\* written either.
SendSummaryEvent(rows, sessionID, ok) ==
    IF ~ok \/ GetSummary(rows, sessionID) = NoSummary THEN <<>>
    ELSE <<SummaryEvent(GetSummary(rows, sessionID))>>

\* handleDoctorSSE: an observer connects to the stream of a session; the
\* current summary is sent as one event, flushed, and the handler returns.
\* `published` is the number of notifications sent before the connection.
DoctorSSE(sessionID) ==
    /\ \E ok \in Oks :
         /\ faults' = Charge(ok)
         /\ sse' = [session_id |-> sessionID,
                    events |-> SendSummaryEvent(summaries, sessionID, ok),
                    failed |-> ~ok,
                    published |-> Len(SelectSeq(notified, LAMBDA n : n = sessionID))]
    /\ UNCHANGED <<store, handler, task, merge, chat, timed, load, signup, extract>>

\* Turns one after another, and observers connecting at any moment.
NextObserve ==
    \/ NextSeq
    \/ \E s \in Sessions : DoctorSSE(s)

SpecObserve == Init /\ [][NextObserve]_vars

\* ------------------------------------------- the recomputation in isolation
\* Summarizer.Summarize takes any *pkg.Summary as `old`: here the summary of
\* one session is drawn from the values of the type, the recomputation of
\* lines 201-209 (read, summarise, upsert) is run on it, and run again with the
\* same answer of the LLM.
MergeSession == "s1"
MergeTexts == {<<"summary">>, <<"cough">>}
MergeFields == {"age"}
MergeValues == {"", "30"}

\* []string without duplicates, of at most MaxKeyPoints elements.
KeyPointLists ==
    {kp \in UNION {[1..n -> MergeTexts] : n \in 0..MaxKeyPoints} :
        \A i, j \in DOMAIN kp : i # j => kp[i] # kp[j]}

\* map[string]interface{}: any subset of the fields, each with a value.
StructuredMaps == UNION {[d -> MergeValues] : d \in SUBSET MergeFields}

MergeOlds ==
    {NoSummary} \cup
    {[session_id |-> MergeSession, key_points |-> kp, structured |-> st, free_text |-> ft] :
        kp \in KeyPointLists, st \in StructuredMaps, ft \in MergeTexts}

\* LLM.Summarize: a text, the empty text of a completion without choices, or an error.
MergeExtractions ==
    {[text |-> x, err |-> FALSE] : x \in MergeTexts \cup {<<>>}}
    \cup {[text |-> <<>>, err |-> TRUE]}

InitMerge ==
    /\ InitServer
    /\ \E old \in MergeOlds : mRows = IF old = NoSummary THEN {} ELSE {old}
    /\ mPrev = mRows
    /\ mExt \in MergeExtractions
    /\ mRound = 0
    /\ ChatAtRest
    /\ TimedAtRest
    /\ inFlight = MaxTurns
    /\ SignupAtRest
    /\ ExtractAtRest

\* handlePostMessage, lines 201-209, with nothing failing at the store.
Recompute ==
    /\ mRound < MaxRounds
    /\ LET old == GetSummary(mRows, MergeSession)
           new == SummarizeCall(MergeSession, <<>>, old, mExt)
       IN /\ mPrev' = mRows
          /\ mRows' = IF new # NoSummary THEN UpsertRow(mRows, new) ELSE mRows
    /\ mRound' = mRound + 1
    /\ UNCHANGED <<store, handler, task, env, mExt, observer, chat, timed, load, signup, extract>>

NextMerge == Recompute

SpecMerge == InitMerge /\ [][NextMerge]_vars

\* ------------------------------------------------------ n turns at once
\* The handler under a given number of requests in flight: ServeHTTP runs each
\* request on its own goroutine, and a request arrives while fewer than
\* inFlight are being handled. The summarisation goroutines are left out
\* here: they write no message and no handler reads what they write.
InFlight == {t \in Turns : pc[t] \notin {"idle", "done"}}

InitLoad ==
    /\ InitServer
    /\ MergeAtRest
    /\ ChatAtRest
    /\ TimedAtRest
    /\ inFlight \in 1..MaxTurns
    /\ SignupAtRest
    /\ ExtractAtRest

Arrive(t) ==
    /\ Cardinality(InFlight) < inFlight
    /\ ParseRequest(t, MaxTurns + 1)

NextLoad ==
    \E t \in Turns :
        \/ Arrive(t)
        \/ CountMessages(t)
        \/ CapReply(t)
        \/ PersistPatient(t)
        \/ ChatReply(t)
        \/ PersistBot(t)
        \/ Cancel(t)

SpecLoad == InitLoad /\ [][NextLoad]_vars

\* ------------------------------------------------- the store with its clock
\* The messages table with its created_at column, the clock of the database
\* (in ticks), and the connections of the pool, each running one statement at a
\* time. The column that names the owner is session_id in schema.sql and
\* national_id in repo.go.
\* schema.sql, lines 17-24: id BIGSERIAL, created_at DEFAULT NOW().
TimedRow(rows, sessionID, at) ==
    [id |-> Len(rows) + 1, session_id |-> sessionID, created_at |-> at]

\* ORDER BY created_at ASC: every listing of the selected rows with created_at
\* ascending; the statement names no second key, so rows with equal
\* created_at come in whatever order the database produces.
OrderByCreatedAt(selected) ==
    {q \in [1..Cardinality(selected) -> selected] :
        /\ \A i, j \in DOMAIN q : i < j => q[i].created_at <= q[j].created_at
        /\ \A i, j \in DOMAIN q : i # j => q[i] # q[j]}

\* Variant: no window.
GetTranscriptNoWindow(rows, nationalID, now) ==
    OrderByCreatedAt({rows[i] : i \in {k \in DOMAIN rows : rows[k].session_id = nationalID}})

\* Repository.GetTranscript of repo.go: the rows of the last 7 days
\* (created_at >= NOW() - INTERVAL '7 days').
GetTranscriptLastWeek(rows, nationalID, now) ==
    OrderByCreatedAt({rows[i] : i \in {k \in DOMAIN rows :
        /\ rows[k].session_id = nationalID
        /\ rows[k].created_at >= now - WindowDuration}})

\* Repository.GetTranscriptSince: GetTranscript filtered in memory.
GetTranscriptSince(rows, nationalID, now, since) ==
    {SelectSeq(all, LAMBDA m : m.created_at > since \/ m.created_at = since) :
        all \in GetTranscriptLastWeek(rows, nationalID, now)}

\* Repository.GetTranscript of the session store: every row of the session.
GetTranscriptOrdered(rows, sessionID) ==
    OrderByCreatedAt({rows[i] : i \in {k \in DOMAIN rows : rows[k].session_id = sessionID}})

Running == {c \in Connections : stmt[c] # NoStatement}

Tick ==
    /\ clock < MaxClock
    /\ clock' = clock + 1
    /\ result' = NoRead
    /\ UNCHANGED <<store, handler, task, env, merge, observer, chat, load, signup, extract, table, stmt>>

\* CreateMessage, the INSERT begins: NOW() is the time at which the statement's
\* transaction starts.
BeginInsert(c, sessionID) ==
    /\ stmt[c] = NoStatement
    /\ Len(table) + Cardinality(Running) < MaxRows
    /\ stmt' = [stmt EXCEPT ![c] = [session_id |-> sessionID, now |-> clock]]
    /\ result' = NoRead
    /\ UNCHANGED <<store, handler, task, env, merge, observer, chat, load, signup, extract, clock, table>>

\* CreateMessage, the row is formed: the id is the next value of the sequence,
\* created_at the NOW() of the statement.
FinishInsert(c) ==
    /\ stmt[c] # NoStatement
    /\ table' = Append(table, TimedRow(table, stmt[c].session_id, stmt[c].now))
    /\ stmt' = [stmt EXCEPT ![c] = NoStatement]
    /\ result' = NoRead
    /\ UNCHANGED <<store, handler, task, env, merge, observer, chat, load, signup, extract, clock>>

ReadLastWeek(nationalID) ==
    /\ \E r \in GetTranscriptLastWeek(table, nationalID, clock) :
         result' = [query |-> "GetTranscript", session_id |-> nationalID, now |-> clock,
                    since |-> clock - WindowDuration, rows |-> r]
    /\ UNCHANGED <<store, handler, task, env, merge, observer, chat, load, signup, extract, clock, table, stmt>>

ReadSince(nationalID, since) ==
    /\ \E r \in GetTranscriptSince(table, nationalID, clock, since) :
         result' = [query |-> "GetTranscriptSince", session_id |-> nationalID, now |-> clock,
                    since |-> since, rows |-> r]
    /\ UNCHANGED <<store, handler, task, env, merge, observer, chat, load, signup, extract, clock, table, stmt>>

ReadSession(sessionID) ==
    /\ \E r \in GetTranscriptOrdered(table, sessionID) :
         result' = [query |-> "GetTranscript (session)", session_id |-> sessionID,
                    now |-> clock, since |-> 0, rows |-> r]
    /\ UNCHANGED <<store, handler, task, env, merge, observer, chat, load, signup, extract, clock, table, stmt>>

NextTimed ==
    \/ Tick
    \/ \E c \in Connections, s \in Sessions : BeginInsert(c, s)
    \/ \E c \in Connections : FinishInsert(c)
    \/ \E s \in Sessions : ReadLastWeek(s)
    \/ \E s \in Sessions, since \in 0..clock : ReadSince(s, since)
    \/ \E s \in Sessions : ReadSession(s)

SpecTimed == Init /\ [][NextTimed]_vars

\* ------------------------------------------------ ReplyWithContext alone
\* ChatService.ReplyWithContext as a function of its arguments: a history in
\* chronological order and the latest user message.
HistoryMessages ==
    {[role |-> r, content |-> c] : r \in {RolePatient, RoleBot}, c \in Contents \cup LLMReplies}

Histories == UNION {[1..k -> HistoryMessages] : k \in 0..MaxHistory}

InitChat ==
    /\ InitServer
    /\ MergeAtRest
    /\ TimedAtRest
    /\ inFlight = MaxTurns
    /\ SignupAtRest
    /\ ExtractAtRest
    /\ chatArgs \in {[lastUserMsg |-> m, history |-> h] : m \in Contents, h \in Histories}
    /\ chatMsgs = <<>>

\* chat.go, lines 30-50: the list built and handed to s.LLM.Chat.
ReplyWithContext ==
    /\ chatMsgs = <<>>
    /\ chatMsgs' = BuildMessages(chatArgs.lastUserMsg, chatArgs.history)
    /\ UNCHANGED <<store, handler, task, env, merge, observer, chatArgs, timed, load, signup, extract>>

NextChat == ReplyWithContext

SpecChat == InitChat /\ [][NextChat]_vars

\* ------------------------------------------------------ UpsertUser alone
\* Repository.UpsertUser of the national-ID store (part_002): an UPDATE of the
\* sessions of the national ID and, when it touched no row, an INSERT of a new
\* session. The two statements run on the pool one after the other, with no
\* transaction around them; sessions.patient_national_id carries no UNIQUE
\* constraint (schema.sql, lines 4-15).
NationalIDs == {"n1", "n2"}

SessionsOfID(rows, nationalID) ==
    {i \in DOMAIN rows : rows[i].patient_national_id = nationalID}

\* uuid.New(): an id no other session has.
NewSession(rows, nationalID) == [id |-> Len(rows) + 1, patient_national_id |-> nationalID]

\* INSERT INTO sessions (id, patient_national_id, ...) VALUES (...)
InsertSession(rows, nationalID) == Append(rows, NewSession(rows, nationalID))

InitSignup ==
    /\ InitServer
    /\ MergeAtRest
    /\ ChatAtRest
    /\ TimedAtRest
    /\ ExtractAtRest
    /\ inFlight = MaxTurns
    /\ SignupAtRest

\* UpsertUser, lines 26-40: the UPDATE and its RowsAffected; an error returns.
UpdateSessions(c, nationalID) ==
    /\ upc[c] = "idle"
    /\ uid' = [uid EXCEPT ![c] = nationalID]
    /\ \E ok \in Oks :
         /\ faults' = Charge(ok)
         /\ IF ok
            THEN LET rowsAffected == Cardinality(SessionsOfID(sessions, nationalID)) IN
                 /\ affected' = [affected EXCEPT ![c] = rowsAffected]
                 /\ upc' = [upc EXCEPT ![c] = IF rowsAffected = 0 THEN "insert" ELSE "done"]
            ELSE /\ upc' = [upc EXCEPT ![c] = "done"]
                 /\ UNCHANGED affected
    /\ UNCHANGED <<store, handler, task, merge, observer, chat, timed, load, extract, sessions>>

\* UpsertUser, lines 41-52: the INSERT of a new session.
InsertNewSession(c) ==
    /\ upc[c] = "insert"
    /\ \E ok \in Oks :
         /\ faults' = Charge(ok)
         /\ sessions' = IF ok THEN InsertSession(sessions, uid[c]) ELSE sessions
    /\ upc' = [upc EXCEPT ![c] = "done"]
    /\ UNCHANGED <<store, handler, task, merge, observer, chat, timed, load, extract, uid, affected>>

NextSignup ==
    \/ \E c \in Callers, n \in NationalIDs : UpdateSessions(c, n)
    \/ \E c \in Callers : InsertNewSession(c)

SpecSignup == InitSignup /\ [][NextSignup]_vars

\* -------------------------------------------------------- Summarize alone
\* Summarizer.Summarize as a function of the transcript it is given: the prompt
\* it hands to LLM.Summarize.
PatientTexts == {<<" ", "h">>, <<"h", "i">>}

TranscriptMessages ==
    {[role |-> RolePatient, content |-> c] : c \in PatientTexts}
    \cup {[role |-> RoleBot, content |-> c] : c \in LLMReplies}

Transcripts == UNION {[1..k -> TranscriptMessages] : k \in 0..MaxTranscript}

InitExtract ==
    /\ InitServer
    /\ MergeAtRest
    /\ ChatAtRest
    /\ TimedAtRest
    /\ SignupAtRest
    /\ inFlight = MaxTurns
    /\ sumTranscript \in Transcripts
    /\ sumPrompt = <<>>

\* summarize.go, lines 34-42: the prompt is composed and handed to the LLM.
ComposePrompt ==
    /\ sumPrompt = <<>>
    /\ sumPrompt' = SummarizePrompt(sumTranscript)
    /\ UNCHANGED <<store, handler, task, env, merge, observer, chat, timed, load, signup,
                   sumTranscript>>

NextExtract == ComposePrompt

SpecExtract == InitExtract /\ [][NextExtract]_vars

\* ---------------------------------------------------------------- claims
\* Vocabulary of the properties, read directly off the tables.
PatientRows(sessionID) ==
    {i \in DOMAIN messages :
        messages[i].session_id = sessionID /\ messages[i].role = "patient"}

PatientRowsNext(sessionID) ==
    {i \in DOMAIN messages' :
        messages'[i].session_id = sessionID /\ messages'[i].role = "patient"}

AllWhitespace(c) == \A i \in DOMAIN c : c[i] \in {" ", "\n"}

Finished(t) == pc[t] = "done"

\* The rows turn t inserted, in order.
Wrote(t) == [i \in DOMAIN ids[t] |-> messages[ids[t][i]]]

Row(sessionID, role, text) == [session_id |-> sessionID, role |-> role, content |-> text]

Plain(m) == [session_id |-> m.session_id, role |-> m.role, content |-> m.content]

\* C1: a turn with a non-empty message is denied exactly when the number of
\* patient messages stored for its session, at the moment the count is read,
\* is at least the limit; a count equal to the limit denies, a smaller one admits.
C1_DenyIffCountAtLeastLimit ==
    [][\A t \in Turns :
         (capped[t] = "" /\ capped'[t] # "") =>
             LET n == Cardinality(PatientRows(sid[t])) IN
             /\ ~AllWhitespace(content[t])
             /\ count'[t] = n
             /\ (capped'[t] = "yes") <=> (n >= MessageCap)
             /\ (capped'[t] = "no") <=> (n < MessageCap)
             /\ pc'[t] = IF n >= MessageCap THEN "cap" ELSE "patient"]_vars

C1_Witness ==
    \E t, u \in Turns :
        /\ capped[t] = "yes" /\ count[t] = MessageCap
        /\ capped[u] = "no" /\ count[u] = MessageCap - 1

\* C2: a denied turn never calls the reasoning service, inserts at most one
\* message, and once it has answered it has inserted exactly one: the fixed
\* closing message with the bot role, for its session.
C2_DeniedTurnAppendsOnlyCapMessage ==
    \A t \in Turns :
        capped[t] = "yes" =>
            /\ sent[t] = <<>>
            /\ Len(ids[t]) <= 1
            /\ (Finished(t) /\ status[t] = StatusOK) =>
                   /\ Len(ids[t]) = 1
                   /\ Plain(Wrote(t)[1]) = Row(sid[t], "bot", <<"CapMessage">>)
                   /\ body[t] = BotSnippet(<<"CapMessage">>)
            /\ tpc[t] = "none"

C2_Witness ==
    \E t \in Turns :
        /\ capped[t] = "yes" /\ Finished(t) /\ status[t] = StatusOK
        /\ Len(ids[t]) = 1

\* C3: no step of a denied turn changes the patient messages of any session:
\* the patient's message of a denied turn is not persisted.
C3_DeniedTurnKeepsPatientMessages ==
    [][\A t \in Turns :
         (capped[t] = "yes" /\ pc'[t] # pc[t]) =>
             /\ \A s \in Sessions : PatientRowsNext(s) = PatientRows(s)
             /\ \A i \in DOMAIN messages : messages'[i] = messages[i]
             /\ \A i \in DOMAIN ids'[t] : messages'[ids'[t][i]].role # "patient"]_vars

C3_Witness ==
    \E t \in Turns :
        /\ capped[t] = "yes" /\ Finished(t) /\ Len(ids[t]) = 1
        /\ Cardinality(PatientRows(sid[t])) = MessageCap

\* Turns that carried a non-empty message, whatever became of them.
NonEmpty(t) == pc[t] # "idle" /\ ~AllWhitespace(content[t])

EarlierNonEmpty(t) == {u \in Turns : u < t /\ NonEmpty(u) /\ sid[u] = sid[t]}

\* C4: with the turns handled one after another, the patient messages of a
\* session never exceed the limit; and when nothing fails, a non-empty turn is
\* admitted (its message and the reply are persisted, in that order) if fewer
\* than limit non-empty turns of its session came before it, and capped otherwise.
C4_SequentialTurnsRespectLimit ==
    /\ \A s \in Sessions : Cardinality(PatientRows(s)) <= MessageCap
    /\ faults = 0 =>
         \A t \in Turns :
            (NonEmpty(t) /\ Finished(t)) =>
                IF Cardinality(EarlierNonEmpty(t)) < MessageCap
                THEN /\ capped[t] = "no"
                     /\ status[t] = StatusOK
                     /\ Len(ids[t]) = 2
                     /\ Plain(Wrote(t)[1]) = Row(sid[t], "patient", content[t])
                     /\ Plain(Wrote(t)[2]) = Row(sid[t], "bot", reply[t])
                ELSE /\ capped[t] = "yes"
                     /\ Len(ids[t]) = 1
                     /\ Wrote(t)[1].role = "bot"

C4_Witness ==
    /\ faults = 0
    /\ \A t \in Turns : Finished(t) /\ NonEmpty(t) /\ sid[t] = "s1"
    /\ capped[1] = "no"
    /\ capped[MaxTurns] = "yes"
    /\ Cardinality(PatientRows("s1")) = MessageCap

\* C5: with at most two turns under way at once, the patient messages of a
\* session exceed the limit by at most one.
C5_TwoConcurrentTurnsExceedByAtMostOne ==
    \A s \in Sessions : Cardinality(PatientRows(s)) <= MessageCap + 1

C5_Witness ==
    \E s \in Sessions : Cardinality(PatientRows(s)) = MessageCap + 1

\* C6: a turn whose message is empty after trimming white space is answered
\* 400 and does nothing else: it inserts no message, calls no LLM, takes no
\* cap decision and starts no summarisation.
C6_EmptyMessageRejectedWithoutEffects ==
    \A t \in Turns :
        (pc[t] # "idle" /\ AllWhitespace(content[t])) =>
            /\ Finished(t)
            /\ status[t] = StatusBadRequest
            /\ ids[t] = <<>>
            /\ sent[t] = <<>>
            /\ capped[t] = ""
            /\ tpc[t] = "none"

C6_Witness ==
    \E t \in Turns :
        /\ Finished(t) /\ content[t] # <<>> /\ AllWhitespace(content[t])
        /\ status[t] = StatusBadRequest
        /\ messages # <<>>

\* C7 (as claimed): when the reasoning call of an admitted turn fails, the fixed
\* fallback text is what is persisted as the assistant message and what is
\* returned to the patient.
C7_FallbackPersistedOnFailure ==
    \A t \in Turns :
        (llmErr[t] /\ Finished(t) /\ status[t] = StatusOK) =>
            /\ Len(ids[t]) = 2
            /\ Wrote(t)[2].content = FallbackReply
            /\ body[t] = BotSnippet(FallbackReply)

\* C8 (as claimed): when the reasoning call of an admitted turn fails, the
\* response of the turn carries an error status, not the status of a success.
C8_FailureSignalled ==
    \A t \in Turns :
        (llmErr[t] /\ Finished(t)) => status[t] # StatusOK

\* C9 (as claimed): a request cancelled during the reasoning call ends like a
\* reasoning failure: the fallback text is persisted as the assistant message
\* of the turn and an error is signalled.
C9_CancellationTreatedAsFailure ==
    \A t \in Turns :
        (cancelledAt[t] = "chat" /\ Finished(t)) =>
            /\ Len(ids[t]) = 2
            /\ Wrote(t)[2].role = "bot"
            /\ Wrote(t)[2].content = FallbackReply
            /\ status[t] # StatusOK

\* C10: the reasoning service is called only after the patient message of the
\* turn is stored, and an admitted turn whose call succeeded and that answered
\* has inserted exactly two messages: the patient's, then the bot's with the
\* returned text.
C10_AdmittedTurnPersistsPatientThenReply ==
    \A t \in Turns :
        /\ sent[t] # <<>> =>
              /\ Len(ids[t]) >= 1
              /\ Plain(Wrote(t)[1]) = Row(sid[t], "patient", content[t])
        /\ Len(ids[t]) <= 2
        /\ (capped[t] = "no" /\ Finished(t) /\ status[t] = StatusOK /\ ~llmErr[t]) =>
              /\ Len(sent[t]) = 1
              /\ Len(ids[t]) = 2
              /\ ids[t][1] < ids[t][2]
              /\ Plain(Wrote(t)[1]) = Row(sid[t], "patient", content[t])
              /\ Plain(Wrote(t)[2]) = Row(sid[t], "bot", reply[t])
              /\ body[t] = BotSnippet(reply[t])

C10_Witness ==
    \E t \in Turns :
        /\ capped[t] = "no" /\ Finished(t) /\ status[t] = StatusOK /\ ~llmErr[t]
        /\ reply[t] \in LLMReplies
        /\ Len(ids[t]) = 2

\* C11 (as claimed): a step of a turn whose store operation fails (the count
\* read, or an insert that leaves the messages table as it was) ends the turn
\* with the internal-error status; a step that ends the turn with a success
\* has durably written the message it reports.
C11_StoreFailureIsInternalError ==
    [][\A t \in Turns :
         (pc[t] \in {"count", "cap", "patient", "bot"} /\ pc'[t] = "done") =>
             IF messages' = messages
             THEN status'[t] = StatusInternalServerError
             ELSE /\ status'[t] = StatusOK
                  /\ Len(messages') = Len(messages) + 1
                  /\ messages'[Len(messages')].session_id = sid[t]
                  /\ messages'[Len(messages')].role = "bot"
                  /\ body'[t] = BotSnippet(messages'[Len(messages')].content)]_vars

\* C12: no step of the summarisation goroutine of a turn (transcript load,
\* summarisation, upsert, notification, whether it works or fails) changes the
\* messages table or the turn's reply, capped flag, status or response body;
\* and a turn whose goroutine was started has answered 200 with its reply and
\* keeps its two rows, whatever the goroutine logged.
C12_RecomputationNeverChangesTurn ==
    /\ [][\A t \in Turns :
            (tpc[t] # "none" /\ tpc'[t] # tpc[t]) =>
                /\ messages' = messages
                /\ reply'[t] = reply[t]
                /\ capped'[t] = capped[t]
                /\ status'[t] = status[t]
                /\ body'[t] = body[t]
                /\ ids'[t] = ids[t]]_vars
    /\ [](\A t \in Turns :
            tpc[t] # "none" =>
                /\ Finished(t)
                /\ capped[t] = "no"
                /\ status[t] = StatusOK
                /\ body[t] = BotSnippet(reply[t])
                /\ Len(ids[t]) = 2
                /\ Plain(Wrote(t)[1]) = Row(sid[t], "patient", content[t])
                /\ Plain(Wrote(t)[2]) = Row(sid[t], "bot", reply[t]))

C12_Witness ==
    \E t \in Turns :
        /\ tpc[t] = "done"
        /\ logged[t] # <<>>
        /\ status[t] = StatusOK
        /\ Len(ids[t]) = 2

\* What the goroutine of turn t logged.
Logged(t, line) == \E i \in DOMAIN logged[t] : logged[t][i] = line

StoreFailed(t) == Logged(t, "failed to load transcript:") \/ Logged(t, "failed to upsert summary:")

Stored(sessionID) == \E row \in summaries : row.session_id = sessionID

\* C13: the step that persists the assistant message of an admitted turn starts
\* the summarisation goroutine of the turn; an upsert step that logs no failure
\* stores the turn's summary for its session; and, the goroutines being
\* scheduled fairly, a started recomputation ends, with a summary stored for
\* the session unless one of its store calls failed.
C13_RecomputationStartedAndSummaryPersisted ==
    /\ [][\A t \in Turns :
            /\ (pc[t] = "bot" /\ pc'[t] = "done" /\ messages' # messages) => tpc'[t] = "load"
            /\ (tpc[t] = "upsert" /\ tpc'[t] = "notify" /\ logged'[t] = logged[t]) =>
                   \E row \in summaries' :
                       /\ row.session_id = sid[t]
                       /\ row = summary[t]]_vars
    /\ \A t \in Turns :
          (tpc[t] = "load") ~> (tpc[t] = "done" /\ (StoreFailed(t) \/ Stored(sid[t])))

C13_Witness ==
    \E t \in Turns :
        /\ tpc[t] = "done"
        /\ ~StoreFailed(t)
        /\ sumErr[t]
        /\ Stored(sid[t])

\* C14 (as claimed): whenever the summaries table changes, every key point of
\* the summary stored for a session is still among the key points of the
\* summary stored for it afterwards: the stored key points never shrink.
C14_StoredKeyPointsNeverShrink ==
    [][\A old \in summaries :
         \E new \in summaries' :
             /\ new.session_id = old.session_id
             /\ \A i \in DOMAIN old.key_points :
                    \E j \in DOMAIN new.key_points :
                        new.key_points[j] = old.key_points[i]]_vars

\* The recomputation in isolation: the summary stored before the latest
\* recomputation and the one stored after it.
OldSummary == GetSummary(mPrev, "s1")

NewSummary == GetSummary(mRows, "s1")

OldKeyPoints == IF OldSummary = [none |-> TRUE] THEN <<>> ELSE OldSummary.key_points

Has(list, x) == \E i \in DOMAIN list : list[i] = x

\* The old key points followed by the fresh ones not already among them.
UnionInOrder(old, fresh) == old \o SelectSeq(fresh, LAMBDA x : ~Has(old, x))

\* C15 (as claimed): after a recomputation whose extraction succeeded, the
\* stored key points are the key points stored before followed by the fresh
\* key point if it was not among them, and no string occurs twice.
C15_KeyPointsAreOrderedUnion ==
    (mRound >= 1 /\ ~mExt.err) =>
        /\ NewSummary.key_points = UnionInOrder(OldKeyPoints, <<mExt.text>>)
        /\ \A i, j \in DOMAIN NewSummary.key_points :
               i # j => NewSummary.key_points[i] # NewSummary.key_points[j]

\* C16: a recomputation run again with the same answer of the LLM stores the
\* same key points and the same structured fields as the first one stored.
C16_RecomputationIdempotent ==
    mRound >= 2 =>
        /\ NewSummary.key_points = OldSummary.key_points
        /\ NewSummary.structured = OldSummary.structured

C16_Witness ==
    /\ mRound = 2
    /\ ~mExt.err
    /\ mExt.text # <<>>
    /\ NewSummary.key_points = <<mExt.text>>
    /\ OldSummary = NewSummary

C18_FreeTextReplaced ==
    (mRound >= 1 /\ ~mExt.err) =>
        /\ NewSummary # [none |-> TRUE]
        /\ NewSummary.session_id = "s1"
        /\ NewSummary.free_text = mExt.text

C18_Witness ==
    /\ mRound = 1
    /\ ~mExt.err
    /\ OldSummary # [none |-> TRUE]
    /\ OldSummary.free_text = <<"summary">>
    /\ mExt.text = <<"cough">>
    /\ NewSummary.free_text = <<"cough">>

\* The degraded summary: one placeholder key point, no structured field, the
\* placeholder free text.
Degraded(sessionID) ==
    [session_id |-> sessionID, key_points |-> <<<<"FallbackKeyPoint">>>>,
     structured |-> <<>>, free_text |-> <<"FallbackFreeText">>]

\* C19: when the summarisation call fails, the goroutine still goes on to the
\* upsert with the degraded summary of the session, and its upsert step, unless
\* the store fails, replaces whatever was stored for the session by it.
C19_ExtractionFailureStoresDegradedSummary ==
    /\ [](\A t \in Turns :
            sumErr[t] =>
                /\ summary[t] = Degraded(sid[t])
                /\ tpc[t] \in {"upsert", "notify", "done"}
                /\ Logged(t, "failed to summarise:"))
    /\ [][\A t \in Turns :
            (sumErr[t] /\ tpc[t] = "upsert" /\ tpc'[t] = "notify" /\ logged'[t] = logged[t]) =>
                /\ GetSummary(summaries', sid[t]) = Degraded(sid[t])
                /\ \A row \in summaries' : row.session_id = sid[t] => row = Degraded(sid[t])]_vars

C19_Witness ==
    \E t \in Turns :
        /\ sumErr[t]
        /\ tpc[t] = "done"
        /\ existing[t] # [none |-> TRUE]
        /\ existing[t] # Degraded(sid[t])
        /\ GetSummary(summaries, sid[t]) = Degraded(sid[t])

\* Turn t's upsert has been applied.
Upserted(t) == tpc[t] \in {"notify", "done"} /\ ~Logged(t, "failed to upsert summary:")

\* C20: the summaries table never holds two rows for one session; every row is,
\* whole, the summary some turn upserted; only upsert steps change the table,
\* and an upsert step that does not fail leaves for its session exactly the
\* summary it wrote and leaves the rows of the other sessions alone.
C20_OneSummaryPerSessionLastWriterWins ==
    /\ [](\A a, b \in summaries : a.session_id = b.session_id => a = b)
    /\ [](\A row \in summaries :
            \E t \in Turns : Upserted(t) /\ sid[t] = row.session_id /\ row = summary[t])
    /\ [][\A t \in Turns :
            (tpc[t] = "upsert" /\ tpc'[t] = "notify" /\ logged'[t] = logged[t]) =>
                /\ \A row \in summaries' : row.session_id = sid[t] => row = summary[t]
                /\ \E row \in summaries' : row.session_id = sid[t]
                /\ \A row \in summaries : row.session_id # sid[t] => row \in summaries'
                /\ \A row \in summaries' : row.session_id # sid[t] => row \in summaries]_vars
    /\ [][summaries' # summaries =>
            \E t \in Turns : tpc[t] = "upsert" /\ tpc'[t] = "notify"]_vars

C20_Witness ==
    \E t, u \in Turns :
        /\ t # u
        /\ sid[t] = sid[u]
        /\ Upserted(t) /\ Upserted(u)
        /\ summary[t] # summary[u]
        /\ summaries = {summary[t]}

C22_NotificationOnlyAfterPersist ==
    [][\A t \in Turns :
         (tpc[t] = "notify" /\ tpc'[t] = "done" /\ notified' # notified) =>
             /\ ~Logged(t, "failed to upsert summary:")
             /\ \E row \in summaries : row.session_id = sid[t]]_vars

\* C24: the list handed to the LLM is the system prompt, then every message
\* of the history in the given order with patient as "user" and bot as
\* "assistant", then the new message as "user"; its length is the length of
\* the history plus two, and with no history it is the system prompt followed
\* by the new message.
C24_SystemThenHistoryThenNewMessage ==
    chatMsgs # <<>> =>
        LET h == chatArgs.history
        IN /\ Len(chatMsgs) = Len(h) + 2
           /\ chatMsgs[1] = [role |-> "system", content |-> <<"SystemPrompt">>]
           /\ \A i \in 1..Len(h) :
                /\ chatMsgs[i + 1].content = h[i].content
                /\ h[i].role = "patient" => chatMsgs[i + 1].role = "user"
                /\ h[i].role = "bot" => chatMsgs[i + 1].role = "assistant"
           /\ chatMsgs[Len(chatMsgs)] = [role |-> "user", content |-> chatArgs.lastUserMsg]
           /\ h = <<>> =>
                chatMsgs = <<[role |-> "system", content |-> <<"SystemPrompt">>],
                             [role |-> "user", content |-> chatArgs.lastUserMsg]>>

C24_Witness ==
    /\ Len(chatMsgs) = 4
    /\ chatArgs.history[1].role = "patient"
    /\ chatArgs.history[2].role = "bot"
    /\ chatMsgs[2].role = "user"
    /\ chatMsgs[3].role = "assistant"
    /\ chatMsgs[4].content = <<" ", "h">>

\* C25: the transcript is append-only: no step of a turn, of a recomputation
\* or of the notifier removes or changes a stored message, so the number of
\* stored patient messages of a session never decreases.
C25_TranscriptAppendOnly ==
    [][/\ Len(messages') >= Len(messages)
       /\ \A i \in DOMAIN messages : messages'[i] = messages[i]
       /\ \A s \in Sessions :
            Cardinality(PatientRowsNext(s)) >= Cardinality(PatientRows(s))]_vars

C25_Witness ==
    /\ Len(messages) >= 4
    /\ \E t \in Turns : tpc[t] = "done" /\ sid[t] = "s1"
    /\ "s1" \in {notified[i] : i \in DOMAIN notified}
    /\ \E row \in summaries : row.session_id = "s1"
    /\ Cardinality(PatientRows("s1")) >= 2

\* C23: a windowed read returns exactly the messages of the identity whose
\* timestamp is at or after now minus the window, in ascending order of
\* timestamp: a message one tick older than the window is left out, one inside
\* it is returned. (GetTranscriptSince: for a window that lies within the week.)
InWindow(sessionID, from) ==
    {table[i] : i \in {k \in DOMAIN table :
        table[k].session_id = sessionID /\ table[k].created_at >= from}}

Returned == {result.rows[i] : i \in DOMAIN result.rows}

Ascending ==
    \A i, j \in DOMAIN result.rows : i < j =>
        result.rows[i].created_at <= result.rows[j].created_at

C23_WindowedReadIsExact ==
    /\ (result # [none |-> TRUE] /\ result.query = "GetTranscript") =>
          /\ Returned = InWindow(result.session_id, result.now - WindowDuration)
          /\ Len(result.rows) = Cardinality(Returned)
          /\ Ascending
    /\ (result # [none |-> TRUE] /\ result.query = "GetTranscriptSince"
        /\ result.since >= result.now - WindowDuration) =>
          /\ Returned = InWindow(result.session_id, result.since)
          /\ Len(result.rows) = Cardinality(Returned)
          /\ Ascending

C23_Witness ==
    /\ result # [none |-> TRUE]
    /\ result.query = "GetTranscript"
    /\ \E m \in InWindow(result.session_id, 0) :
         m.created_at = result.now - WindowDuration - 1 /\ m \notin Returned
    /\ \E m \in InWindow(result.session_id, 0) :
         m.created_at = result.now - WindowDuration + 1 /\ m \in Returned
    /\ \E i \in DOMAIN table : table[i].session_id # result.session_id

\* C26 (as claimed): within a session the timestamps never decrease along the
\* storage order (the order of the ids), also when connections insert
\* concurrently.
C26_TimestampsFollowInsertionOrder ==
    \A i, j \in DOMAIN table :
        (i < j /\ table[i].session_id = table[j].session_id) =>
            table[i].created_at <= table[j].created_at

\* C27 (as claimed): a transcript read is ordered by timestamp, and messages
\* with the same timestamp come in the order of their ids.
C27_ReadOrderedByTimestampThenId ==
    result # [none |-> TRUE] =>
        \A i, j \in DOMAIN result.rows : i < j =>
            \/ result.rows[i].created_at < result.rows[j].created_at
            \/ /\ result.rows[i].created_at = result.rows[j].created_at
               /\ result.rows[i].id < result.rows[j].id

\* C28: the recomputation does not depend on the request that started it: once
\* the turn has answered (its request context is then cancelled), the
\* transcript load, the extraction, the upsert and the notification of its
\* goroutine still succeed whenever the store and the LLM themselves work.
C28_RecomputationOutlivesRequest ==
    [][\A t \in Turns :
         (pc[t] = "done" /\ tpc'[t] # tpc[t] /\ faults' = faults) =>
            /\ logged'[t] = logged[t]
            /\ tpc[t] = "load" =>
                 /\ tpc'[t] = "summarize"
                 /\ Len(transcript'[t]) =
                        Cardinality({i \in DOMAIN messages : messages[i].session_id = sid[t]})
            /\ tpc[t] = "summarize" => (tpc'[t] = "upsert" /\ ~sumErr'[t])
            /\ tpc[t] = "upsert" => (tpc'[t] = "notify" /\ summary[t] \in summaries')
            /\ tpc[t] = "notify" => (tpc'[t] = "done" /\ notified' = Append(notified, sid[t]))]_vars

C28_Witness ==
    \E t \in Turns :
        /\ pc[t] = "done"
        /\ status[t] = "200 OK"
        /\ tpc[t] = "done"
        /\ logged[t] = <<>>
        /\ Len(transcript[t]) >= 2
        /\ summary[t] \in summaries
        /\ sid[t] \in {notified[i] : i \in DOMAIN notified}

\* What a recomputation read, measured against the table.
SessionRows(sessionID) == {i \in DOMAIN messages : messages[i].session_id = sessionID}

Quiet == \A t \in Turns : pc[t] \in {"idle", "done"} /\ tpc[t] \in {"none", "done"}

UpsertStep(t) == tpc[t] = "upsert" /\ tpc'[t] = "notify" /\ logged'[t] = logged[t]

\* C29 (as claimed): when nothing has failed, every step that leaves the
\* turns and recomputations of a session finished leaves a stored summary
\* that some recomputation computed from a transcript holding every stored
\* message of the session; and no recomputation overwrites the summary of
\* one that read a longer transcript.
C29_FinalSummaryFromFullTranscript ==
    [][/\ (faults' = 0 /\ Quiet') =>
            \A row \in summaries' :
                \E t \in Turns :
                    /\ sid'[t] = row.session_id
                    /\ summary'[t] = row
                    /\ Len(transcript'[t]) =
                           Cardinality({i \in DOMAIN messages' :
                                           messages'[i].session_id = row.session_id})
       /\ \A t, u \in Turns :
            (UpsertStep(t) /\ u # t /\ sid[u] = sid[t]
             /\ tpc[u] \in {"notify", "done"} /\ summary[u] \in summaries) =>
                Len(transcript[u]) <= Len(transcript[t])]_vars

\* C29 (amended): the last writer wins. A load step that does not fail reads
\* every message stored for the session at that moment, the turn's own patient
\* and assistant message included; an upsert step that does not fail leaves,
\* for the session, exactly the summary its recomputation computed from that
\* transcript, whatever was stored before.
C29_LastWriterWinsOverLoadedTranscript ==
    [][\A t \in Turns :
         /\ (tpc[t] = "load" /\ tpc'[t] = "summarize") =>
               /\ Len(transcript'[t]) = Cardinality(SessionRows(sid[t]))
               /\ \A i \in SessionRows(sid[t]) :
                    \E k \in DOMAIN transcript'[t] : transcript'[t][k] = messages[i]
               /\ \A k \in DOMAIN ids[t] :
                    \E j \in DOMAIN transcript'[t] : transcript'[t][j].id = ids[t][k]
         /\ UpsertStep(t) =>
               /\ summary[t] \in summaries'
               /\ \A row \in summaries' : row.session_id = sid[t] => row = summary[t]
               /\ Len(transcript[t]) <= Cardinality(SessionRows(sid[t]))]_vars

\* The recomputation that read the shorter transcript wrote last.
C29_Witness ==
    \E t, u \in Turns :
        /\ t # u /\ sid[t] = sid[u]
        /\ tpc[t] = "done" /\ tpc[u] = "done"
        /\ logged[t] = <<>> /\ logged[u] = <<>>
        /\ Len(transcript[t]) < Len(transcript[u])
        /\ summary[t] # summary[u]
        /\ summary[t] \in summaries

\* C30: with at most n turns in flight at once, n >= 1, a session never holds
\* more than limit + n - 1 patient messages.
C30_AtMostLimitPlusInFlightMinusOne ==
    \A s \in Sessions :
        Cardinality({i \in DOMAIN messages :
                        messages[i].session_id = s /\ messages[i].role = "patient"})
            <= MessageCap + inFlight - 1

C30_Witness ==
    /\ inFlight >= 3
    /\ Cardinality({i \in DOMAIN messages :
                       messages[i].session_id = "s1" /\ messages[i].role = "patient"})
           = MessageCap + 2
    /\ \A t \in Turns : pc[t] = "done"

C32_DeniedTurnStartsNoRecomputation ==
    /\ [](\A t \in Turns : capped[t] = "yes" => tpc[t] = "none")
    /\ [][\A t \in Turns :
            (capped[t] = "yes" /\ pc'[t] # pc[t]) =>
                (summaries' = summaries /\ notified' = notified)]_vars
    /\ [][(summaries' # summaries \/ notified' # notified) =>
            \E t \in Turns : capped[t] = "no" /\ tpc'[t] # tpc[t]]_vars

C32_Witness ==
    \E t, u \in Turns :
        /\ capped[u] = "no" /\ tpc[u] = "done" /\ sid[u] = sid[t]
        /\ capped[t] = "yes" /\ pc[t] = "done" /\ Len(ids[t]) = 1
        /\ messages[ids[t][1]].role = "bot"
        /\ summaries = {summary[u]}
        /\ notified = <<sid[t]>>
        /\ \A v \in Turns : tpc[v] \in {"none", "done"}

\* C33: a summary is stored for a session only if at least one patient message
\* and at least one assistant message are stored for that session.
C33_SummaryImpliesPatientAndBotMessage ==
    \A row \in summaries :
        /\ \E i \in DOMAIN messages :
             messages[i].session_id = row.session_id /\ messages[i].role = "patient"
        /\ \E i \in DOMAIN messages :
             messages[i].session_id = row.session_id /\ messages[i].role = "bot"

C33_Witness ==
    /\ \E row \in summaries : row.session_id = "s2"
    /\ Cardinality({i \in DOMAIN messages : messages[i].session_id = "s2"}) = 2
    /\ \E t \in Turns : sid[t] = "s1" /\ pc[t] = "done" /\ status[t] = "500 Internal Server Error"
                        /\ Len(ids[t]) = 1

\* C34: when no turn of a session is being handled and no store call of its
\* turns has failed, the session holds as many assistant messages as patient
\* messages plus denied turns, whether or not the LLM calls worked.
RowsOfRole(sessionID, role) ==
    {i \in DOMAIN messages : messages[i].session_id = sessionID /\ messages[i].role = role}

DeniedTurns(sessionID) == {t \in Turns : sid[t] = sessionID /\ capped[t] = "yes"}

C34_BotRowsArePatientRowsPlusDenials ==
    \A s \in Sessions :
        (\A t \in Turns :
            sid[t] = s =>
                /\ pc[t] \in {"idle", "done"}
                /\ status[t] \in {"none", "200 OK", "400 Bad Request"}) =>
            Cardinality(RowsOfRole(s, "bot")) =
                Cardinality(RowsOfRole(s, "patient")) + Cardinality(DeniedTurns(s))

C34_Witness ==
    \E t, u \in Turns :
        /\ sid[t] = "s1" /\ sid[u] = "s1"
        /\ llmErr[t] /\ capped[t] = "no" /\ capped[u] = "yes"
        /\ \A v \in Turns : pc[v] \in {"idle", "done"} /\ status[v] \in {"none", "200 OK"}
        /\ \E v \in Turns : pc[v] = "idle"
        /\ Cardinality(RowsOfRole("s1", "bot")) = 2
        /\ Cardinality(RowsOfRole("s1", "patient")) = 1

\* C35 (as claimed): a turn that ended with an internal error left the
\* transcript as it was: none of the rows it inserted is stored.
C35_FailedTurnLeavesTranscriptUntouched ==
    \A t \in Turns :
        (pc[t] = "done" /\ status[t] = "500 Internal Server Error") =>
            \A k \in DOMAIN ids[t] : \A i \in DOMAIN messages : messages[i].id # ids[t][k]

\* C35 (amended): each insert is a commit point. A turn that ended with an
\* internal error before its LLM call (failed count, failed patient insert)
\* stored nothing; one that ended with it after the LLM call (failed assistant
\* insert) leaves exactly its patient message stored, and that message is
\* counted by every later count of the session.
C35_FailedTurnKeepsItsPatientMessage ==
    /\ [](\A t \in Turns :
            (pc[t] = "done" /\ status[t] = "500 Internal Server Error") =>
                IF sent[t] = <<>> THEN ids[t] = <<>>
                ELSE /\ Len(ids[t]) = 1
                     /\ \E i \in DOMAIN messages :
                          /\ messages[i].id = ids[t][1]
                          /\ messages[i].session_id = sid[t]
                          /\ messages[i].role = "patient"
                          /\ messages[i].content = content[t])
    /\ [][\A t, u \in Turns :
            (/\ pc[t] = "done" /\ status[t] = "500 Internal Server Error" /\ sent[t] # <<>>
             /\ u # t /\ sid[u] = sid[t]
             /\ pc[u] = "count" /\ pc'[u] \in {"cap", "patient"}) =>
                count'[u] >= 1]_vars

C35_Witness ==
    \E t, u \in Turns :
        /\ t # u /\ sid[t] = sid[u]
        /\ pc[t] = "done" /\ status[t] = "500 Internal Server Error" /\ Len(ids[t]) = 1
        /\ {i \in DOMAIN messages : messages[i].session_id = sid[t] /\ messages[i].role = "patient"}
               = {ids[t][1]}
        /\ pc[u] = "done" /\ capped[u] = "yes" /\ count[u] = 1

\* C36: in every list a turn hands to the LLM, the new patient message is the
\* last element, with role "user", and occurs nowhere else in the list,
\* although the patient message is stored before the list is built.
C36_NewMessageOnceAndLast ==
    \A t \in Turns : \A k \in DOMAIN sent[t] :
        LET list == sent[t][k] IN
        /\ list[Len(list)] = [role |-> "user", content |-> content[t]]
        /\ \A i \in 1..(Len(list) - 1) : list[i] # [role |-> "user", content |-> content[t]]
        /\ \E i \in DOMAIN messages :
             /\ messages[i].id = ids[t][1]
             /\ messages[i].role = "patient"
             /\ messages[i].content = content[t]

C36_Witness ==
    \E t, u \in Turns :
        /\ t # u /\ sid[t] = sid[u]
        /\ ids[u] # <<>> /\ ids[t] # <<>> /\ ids[u][1] < ids[t][1]
        /\ Len(sent[t]) = 1
        /\ Len(sent[t][1]) = 2
        /\ sent[t][1][2].content = content[t]
        /\ messages[ids[t][1]].content = content[t]

\* C37 (as claimed): whatever the interleaving of UpsertUser calls, a national
\* ID never has more than one session.
C37_AtMostOneSessionPerNationalID ==
    \A n \in {"n1", "n2"} :
        Cardinality({i \in DOMAIN sessions : sessions[i].patient_national_id = n}) <= 1

\* C38 (as claimed): every patient message of the transcript handed to the
\* summariser occurs in the prompt handed to the LLM.
OccursIn(text, whole) ==
    \E k \in 0..(Len(whole) - Len(text)) : SubSeq(whole, k + 1, k + Len(text)) = text

C38_EveryPatientMessageInPrompt ==
    sumPrompt # <<>> =>
        \A i \in DOMAIN sumTranscript :
            sumTranscript[i].role = "patient" => OccursIn(sumTranscript[i].content, sumPrompt)

====
